---- MODULE Spec2Model ----
\* Client-side state synchronisation layer of genai-chatbot: the zustand chat
\* store (sessionId, messages, isLoading, sessions, sessionsLoading), the file
\* store (files, selectedFiles, isLoading), the API object the chat store
\* calls and the React handlers that call the stores.  JavaScript runs one handler at a time: an async store operation is a
\* synchronous prefix up to its await (the "call" action), a request in flight
\* (an entry of pending), and a continuation that runs when the backend
\* answers or fails (the "_then" / "_catch" actions).
EXTENDS Integers, Sequences, FiniteSets, TLC

\* ---------------------------------------------------------------- bounds
\* Requests in flight at the moment a new user-initiated call is accepted.
MaxPending == 2
\* Length of messages at which no further sendMessage call is started.
MaxMessages == 3
\* Number of toggleFileSelection calls in a sequence of toggles.
MaxToggles == 6

\* ---------------------------------------------------------------- values
Null == "null"
SessionIds == {"A", "B"}
DocIds == {"d1", "d2"}

\* Text is a sequence of characters; " " is the only whitespace used.
Inputs == {<<>>, <<" ">>, <<"q">>, <<" ", "q">>}

\* A message's sources slot: the key is absent, holds undefined, holds null,
\* or holds an array of citation strings.
NoSources == [kind |-> "absent", items |-> <<>>]
UndefinedSources == [kind |-> "undefined", items |-> <<>>]
NullSources == [kind |-> "null", items |-> <<>>]
SourceList(items) == [kind |-> "list", items |-> items]

\* JavaScript truthiness of a sources slot: every array is truthy, null and
\* undefined are falsy.
Truthy(sources) == sources.kind = "list"

Msg(role, content, sources) ==
    [role |-> role, content |-> content, sources |-> sources]

\* Backend responses the environment can produce.
BackendHistories ==
    { <<>>,
      << Msg("user", <<"h">>, NullSources),
         Msg("assistant", <<"r">>, SourceList(<<"s">>)) >> }
ChatResponses ==
    [answer : {<<"a">>}, sources : {SourceList(<<"s">>)}, session_id : SessionIds]
\* The backend answers in the session the request names, and creates one when
\* the request names none.
ChatResponsesFor(req) ==
    {r \in ChatResponses : req.session_id # Null => r.session_id = req.session_id}
\* Files the user can drop on FileUpload: none accepted, or one with a MIME
\* type and a size in bytes.
MaxUploadSize == 50 * 1024 * 1024
NoFile == [type |-> "none", size |-> 0]
DroppedFiles ==
    {NoFile} \cup [type : {"application/pdf", "text/plain"},
                   size : {MaxUploadSize, MaxUploadSize + 1}]
\* The methods of the chatAPI object of services/api.js.
ChatAPIMethods == {"createSession", "sendMessage", "deleteSession", "getSessionInfo"}
\* The methods the chat store calls and services/api.js does not define: the
\* "list sessions" and "get session history" operations of the backend
\* contract.
SessionAPIMethods == {"getAllSessions", "getSessionHistory"}
\* The chatAPI objects the store can be linked with: the one of the
\* repository, and that one completed with the two missing methods.
ChatAPIs == {ChatAPIMethods, ChatAPIMethods \cup SessionAPIMethods}

Session(id) == [session_id |-> id]
SessionLists == {<<>>, <<Session("A"), Session("B")>>}
File(id) == [id |-> id]
FileLists == {<<>>, <<File("d1")>>, <<File("d1"), File("d2")>>}

\* ---------------------------------------------------------------- state
VARIABLES
    sessionId,        \* chat store: active session id or Null
    messages,         \* chat store: message sequence of the active conversation
    isLoading,        \* chat store: loading flag
    sessions,         \* chat store: cached session summaries
    sessionsLoading,  \* chat store: sessions list being fetched
    files,            \* file store: known documents
    selectedFiles,    \* file store: selected document ids
    fileIsLoading,    \* file store: its isLoading flag
    isUploading,      \* file store: an upload is running
    chatAPI,          \* the methods of the chatAPI object the chat store calls
    input,            \* ChatInput: the text in the textarea
    deletingSession,  \* SessionList: the session whose deletion is awaited, or Null
    pending,          \* requests in flight, in the order they were issued
    pre,              \* history variable: messages when an operation was last called
    preId,            \* history variable: sessionId when an operation was last called
    choice,           \* history variable: target of the switchSession issued last
    toggles,          \* history variable: the ids passed to toggleFileSelection
    deleted,          \* history variable: the session deleted last, or Null
    stale,            \* history variable: how many requests, at the head of
                      \* pending, were in flight when that deletion succeeded
    last              \* history variable: the step taken last

chatVars == <<sessionId, messages, isLoading, sessions, sessionsLoading>>
fileVars == <<files, selectedFiles, fileIsLoading, isUploading>>
vars == <<chatVars, fileVars, chatAPI, input, deletingSession, pending, pre,
          preId, choice, toggles, deleted, stale, last>>

\* ---------------------------------------------------------------- helpers
RemoveAt(s, i) == SubSeq(s, 1, i - 1) \o SubSeq(s, i + 1, Len(s))

\* Array.prototype.slice(0, -1)
SliceDropLast(s) == IF Len(s) = 0 THEN <<>> ELSE SubSeq(s, 1, Len(s) - 1)

\* Array.prototype.includes
Includes(s, x) == \E k \in 1..Len(s) : s[k] = x

\* String.prototype.trim
RECURSIVE TrimLeft(_)
TrimLeft(s) ==
    IF s # <<>> /\ Head(s) = " " THEN TrimLeft(Tail(s)) ELSE s
RECURSIVE TrimRight(_)
TrimRight(s) ==
    IF s # <<>> /\ s[Len(s)] = " " THEN TrimRight(SubSeq(s, 1, Len(s) - 1)) ELSE s
Trim(s) == TrimRight(TrimLeft(s))

\* A request in flight: the API method and the values its continuation closes
\* over.
Request(op, sid, question, docs) ==
    [op |-> op, session_id |-> sid, question |-> question, document_ids |-> docs]

\* The step taken last: the operation, what it did ("call": ran up to its
\* await; "throw": ran from its call through its catch branch, nothing
\* awaited; "then" / "catch": its continuation ran the try or the catch branch;
\* "await": its continuation ran up to a further await; "local": a
\* synchronous operation; "noop": a handler returned at its guard), and how
\* the promise its caller awaits settled, if it did.
Event(op, ev, outcome) == [op |-> op, ev |-> ev, outcome |-> outcome]

\* What the call of an operation whose first request is chatAPI[method]() does:
\* it runs up to its await ("call"), or, the method missing, the call throws
\* a TypeError inside the try and the operation runs its catch branch and
\* returns without awaiting ("throw").
CallEvent(method) == IF method \in chatAPI THEN "call" ELSE "throw"

CanCall == Len(pending) < MaxPending

\* Positions of pending holding a request of the API method op.
InFlight(op) == {k \in 1..Len(pending) : pending[k].op = op}

\* ---------------------------------------------------------------- Init
Init ==
    /\ sessionId = Null
    /\ messages = <<>>
    /\ isLoading = FALSE
    /\ sessions = <<>>
    /\ sessionsLoading = FALSE
    /\ files = <<>>
    /\ selectedFiles = <<>>
    /\ fileIsLoading = FALSE
    /\ isUploading = FALSE
    /\ chatAPI \in ChatAPIs
    /\ input = <<>>
    /\ deletingSession = Null
    /\ pending = <<>>
    /\ pre = <<>>
    /\ preId = Null
    /\ choice = "unset"
    /\ toggles = <<>>
    /\ deleted = Null
    /\ stale = 0
    /\ last = Event("none", "init", "none")

\* ------------------------------------------------- chat store operations
\* Each operation constrains the stores and pending; the history variables
\* are set by the observer the specification conjoins to it.

\* get().fetchSessions() up to its await, as called from inside another
\* continuation: the request joins those left in flight.  When chatAPI has
\* no getAllSessions the call throws inside the try: sessionsLoading is set
\* and cleared again by the catch branch before fetchSessions returns, and
\* no request is issued.
Refresh(reqs) ==
    IF "getAllSessions" \in chatAPI
    THEN /\ sessionsLoading' = TRUE
         /\ pending' = Append(reqs, Request("getAllSessions", Null, <<>>, <<>>))
    ELSE /\ sessionsLoading' = FALSE
         /\ pending' = reqs

initializeSession ==
    /\ CanCall
    /\ pending' = Append(pending, Request("createSession", Null, <<>>, <<>>))
    /\ UNCHANGED <<chatVars, fileVars>>

initializeSession_then(i, sid) ==
    /\ i \in InFlight("createSession")
    /\ sessionId' = sid
    /\ Refresh(RemoveAt(pending, i))
    /\ UNCHANGED <<messages, isLoading, sessions, fileVars>>

\* Mutant of initializeSession_catch: the failure leaves a partial session
\* (no id, the sessions list being refreshed).
initializeSession_catch_partial(i) ==
    /\ i \in InFlight("createSession")
    /\ sessionId' = Null
    /\ Refresh(RemoveAt(pending, i))
    /\ UNCHANGED <<messages, isLoading, sessions, fileVars>>

initializeSession_catch(i) ==
    /\ i \in InFlight("createSession")
    /\ pending' = RemoveAt(pending, i)
    /\ UNCHANGED <<chatVars, fileVars>>

fetchSessions ==
    /\ CanCall
    /\ Refresh(pending)
    /\ UNCHANGED <<sessionId, messages, isLoading, sessions, fileVars>>

\* Mutant of fetchSessions_then: the response is merged into the cached list.
fetchSessions_then_merges(i, list) ==
    /\ i \in InFlight("getAllSessions")
    /\ sessions' = sessions \o list
    /\ sessionsLoading' = FALSE
    /\ pending' = RemoveAt(pending, i)
    /\ UNCHANGED <<sessionId, messages, isLoading, fileVars>>

fetchSessions_then(i, list) ==
    /\ i \in InFlight("getAllSessions")
    /\ sessions' = list
    /\ sessionsLoading' = FALSE
    /\ pending' = RemoveAt(pending, i)
    /\ UNCHANGED <<sessionId, messages, isLoading, fileVars>>

\* Mutant of fetchSessions_catch: the failure empties the cached list.
fetchSessions_catch_clearsList(i) ==
    /\ i \in InFlight("getAllSessions")
    /\ sessions' = <<>>
    /\ sessionsLoading' = FALSE
    /\ pending' = RemoveAt(pending, i)
    /\ UNCHANGED <<sessionId, messages, isLoading, fileVars>>

fetchSessions_catch(i) ==
    /\ i \in InFlight("getAllSessions")
    /\ sessionsLoading' = FALSE
    /\ pending' = RemoveAt(pending, i)
    /\ UNCHANGED <<sessionId, messages, isLoading, sessions, fileVars>>

\* sessionHistory.messages.map(msg => ({role, content, sources: msg.sources || undefined}))
ConvertHistory(h) ==
    [k \in 1..Len(h) |->
        Msg(h[k].role, h[k].content,
            IF Truthy(h[k].sources) THEN h[k].sources ELSE UndefinedSources)]

\* switchSession up to its await.  When chatAPI has no getSessionHistory the
\* call throws inside the try and the catch branch runs at once.
switchSession(id) ==
    /\ CanCall
    /\ IF "getSessionHistory" \in chatAPI
       THEN /\ isLoading' = TRUE
            /\ pending' = Append(pending, Request("getSessionHistory", id, <<>>, <<>>))
            /\ UNCHANGED <<sessionId, messages>>
       ELSE /\ sessionId' = id
            /\ messages' = <<>>
            /\ isLoading' = FALSE
            /\ UNCHANGED pending
    /\ UNCHANGED <<sessions, sessionsLoading, fileVars>>

\* Mutant of switchSession_then: the session id is set, the messages of the
\* previous session are kept.
switchSession_then_idOnly(i, h) ==
    /\ i \in InFlight("getSessionHistory")
    /\ sessionId' = pending[i].session_id
    /\ isLoading' = FALSE
    /\ Refresh(RemoveAt(pending, i))
    /\ UNCHANGED <<messages, sessions, fileVars>>

switchSession_then(i, h) ==
    /\ i \in InFlight("getSessionHistory")
    /\ sessionId' = pending[i].session_id
    /\ messages' = ConvertHistory(h)
    /\ isLoading' = FALSE
    /\ Refresh(RemoveAt(pending, i))
    /\ UNCHANGED <<sessions, fileVars>>

\* Mutant of switchSession_catch: the failure keeps the previous session.
switchSession_catch_keepsSession(i) ==
    /\ i \in InFlight("getSessionHistory")
    /\ isLoading' = FALSE
    /\ pending' = RemoveAt(pending, i)
    /\ UNCHANGED <<sessionId, messages, sessions, sessionsLoading, fileVars>>

switchSession_catch(i) ==
    /\ i \in InFlight("getSessionHistory")
    /\ sessionId' = pending[i].session_id
    /\ messages' = <<>>
    /\ isLoading' = FALSE
    /\ pending' = RemoveAt(pending, i)
    /\ UNCHANGED <<sessions, sessionsLoading, fileVars>>

deleteSession(id) ==
    /\ CanCall
    /\ pending' = Append(pending, Request("deleteSession", id, <<>>, <<>>))
    /\ UNCHANGED <<chatVars, fileVars>>

\* Mutant of deleteSession_then: a replacement session is requested when the
\* active session was deleted.
deleteSession_then_recreates(i) ==
    /\ i \in InFlight("deleteSession")
    /\ sessions' = SelectSeq(sessions, LAMBDA s : s.session_id # pending[i].session_id)
    /\ IF sessionId = pending[i].session_id
       THEN /\ sessionId' = Null
            /\ messages' = <<>>
            /\ pending' = Append(RemoveAt(pending, i),
                                 Request("createSession", Null, <<>>, <<>>))
       ELSE /\ UNCHANGED <<sessionId, messages>>
            /\ pending' = RemoveAt(pending, i)
    /\ UNCHANGED <<isLoading, sessionsLoading, fileVars>>

\* Mutant of deleteSession_then: the conversation is cleared whichever session
\* was deleted.
deleteSession_then_clearsAlways(i) ==
    /\ i \in InFlight("deleteSession")
    /\ sessions' = SelectSeq(sessions, LAMBDA s : s.session_id # pending[i].session_id)
    /\ sessionId' = Null
    /\ messages' = <<>>
    /\ pending' = RemoveAt(pending, i)
    /\ UNCHANGED <<isLoading, sessionsLoading, fileVars>>

\* Mutant of deleteSession_then: the active session is cleared but its
\* messages are kept.
deleteSession_then_keepsMessages(i) ==
    /\ i \in InFlight("deleteSession")
    /\ sessions' = SelectSeq(sessions, LAMBDA s : s.session_id # pending[i].session_id)
    /\ sessionId' = IF sessionId = pending[i].session_id THEN Null ELSE sessionId
    /\ pending' = RemoveAt(pending, i)
    /\ UNCHANGED <<messages, isLoading, sessionsLoading, fileVars>>

deleteSession_then(i) ==
    /\ i \in InFlight("deleteSession")
    /\ sessions' = SelectSeq(sessions, LAMBDA s : s.session_id # pending[i].session_id)
    /\ IF sessionId = pending[i].session_id
       THEN sessionId' = Null /\ messages' = <<>>
       ELSE UNCHANGED <<sessionId, messages>>
    /\ pending' = RemoveAt(pending, i)
    /\ UNCHANGED <<isLoading, sessionsLoading, fileVars>>

\* Mutant of deleteSession_catch: the entry is removed although the backend
\* refused.
deleteSession_catch_removesEntry(i) ==
    /\ i \in InFlight("deleteSession")
    /\ sessions' = SelectSeq(sessions, LAMBDA s : s.session_id # pending[i].session_id)
    /\ pending' = RemoveAt(pending, i)
    /\ UNCHANGED <<sessionId, messages, isLoading, sessionsLoading, fileVars>>

deleteSession_catch(i) ==
    /\ i \in InFlight("deleteSession")
    /\ pending' = RemoveAt(pending, i)
    /\ UNCHANGED <<chatVars, fileVars>>

sendMessage(message, documentIds) ==
    /\ CanCall
    /\ Len(messages) < MaxMessages
    /\ messages' = Append(messages, Msg("user", message, NoSources))
    /\ isLoading' = TRUE
    /\ pending' = Append(pending,
                         Request("sendMessage", sessionId, message, documentIds))
    /\ UNCHANGED <<sessionId, sessions, sessionsLoading, fileVars>>

\* Mutant of sendMessage_then: the session id of the response is not adopted.
sendMessage_then_keepsSession(i, response) ==
    /\ i \in InFlight("sendMessage")
    /\ messages' = Append(messages,
                          Msg("assistant", response.answer, response.sources))
    /\ isLoading' = FALSE
    /\ Refresh(RemoveAt(pending, i))
    /\ UNCHANGED <<sessionId, sessions, fileVars>>

\* Mutant of sendMessage_then: the reply takes the place of the pending user
\* message.
sendMessage_then_replacesUser(i, response) ==
    /\ i \in InFlight("sendMessage")
    /\ messages' = Append(SliceDropLast(messages),
                          Msg("assistant", response.answer, response.sources))
    /\ isLoading' = FALSE
    /\ sessionId' = response.session_id
    /\ Refresh(RemoveAt(pending, i))
    /\ UNCHANGED <<sessions, fileVars>>

sendMessage_then(i, response) ==
    /\ i \in InFlight("sendMessage")
    /\ messages' = Append(messages,
                          Msg("assistant", response.answer, response.sources))
    /\ isLoading' = FALSE
    /\ sessionId' = response.session_id
    /\ Refresh(RemoveAt(pending, i))
    /\ UNCHANGED <<sessions, fileVars>>

\* Mutant of sendMessage_catch: the loading flag stays set after a failure.
sendMessage_catch_staysLoading(i) ==
    /\ i \in InFlight("sendMessage")
    /\ messages' = SliceDropLast(messages)
    /\ pending' = RemoveAt(pending, i)
    /\ UNCHANGED <<sessionId, isLoading, sessions, sessionsLoading, fileVars>>

\* Mutant of sendMessage_catch: no rollback of the user message.
sendMessage_catch_keepsMessage(i) ==
    /\ i \in InFlight("sendMessage")
    /\ isLoading' = FALSE
    /\ pending' = RemoveAt(pending, i)
    /\ UNCHANGED <<sessionId, messages, sessions, sessionsLoading, fileVars>>

sendMessage_catch(i) ==
    /\ i \in InFlight("sendMessage")
    /\ messages' = SliceDropLast(messages)
    /\ isLoading' = FALSE
    /\ pending' = RemoveAt(pending, i)
    /\ UNCHANGED <<sessionId, sessions, sessionsLoading, fileVars>>

\* Mutant of clearChat: the session is dropped with its messages.
clearChat_dropsSession ==
    /\ messages' = <<>>
    /\ sessionId' = Null
    /\ UNCHANGED <<isLoading, sessions, sessionsLoading, fileVars, pending>>

clearChat ==
    /\ messages' = <<>>
    /\ UNCHANGED <<sessionId, isLoading, sessions, sessionsLoading, fileVars, pending>>

\* ------------------------------------------------- file store operations
loadFiles ==
    /\ CanCall
    /\ fileIsLoading' = TRUE
    /\ pending' = Append(pending, Request("getFiles", Null, <<>>, <<>>))
    /\ UNCHANGED <<chatVars, files, selectedFiles, isUploading>>

loadFiles_then(i, list) ==
    /\ i \in InFlight("getFiles")
    /\ files' = list
    /\ fileIsLoading' = FALSE
    /\ pending' = RemoveAt(pending, i)
    /\ UNCHANGED <<chatVars, selectedFiles, isUploading>>

\* Mutant of loadFiles_catch: the failure empties the document list.
loadFiles_catch_clearsList(i) ==
    /\ i \in InFlight("getFiles")
    /\ files' = <<>>
    /\ fileIsLoading' = FALSE
    /\ pending' = RemoveAt(pending, i)
    /\ UNCHANGED <<chatVars, selectedFiles, isUploading>>

loadFiles_catch(i) ==
    /\ i \in InFlight("getFiles")
    /\ fileIsLoading' = FALSE
    /\ pending' = RemoveAt(pending, i)
    /\ UNCHANGED <<chatVars, files, selectedFiles, isUploading>>

\* uploadFile: set({isUploading: true}), then await fileAPI.uploadFile(file).
uploadFile ==
    /\ CanCall
    /\ isUploading' = TRUE
    /\ pending' = Append(pending, Request("uploadFile", Null, <<>>, <<>>))
    /\ UNCHANGED <<chatVars, files, selectedFiles, fileIsLoading>>

\* Mutant of uploadFile_then: the uploading flag is cleared before the reload.
uploadFile_then_clearsFlag(i) ==
    /\ i \in InFlight("uploadFile")
    /\ fileIsLoading' = TRUE
    /\ isUploading' = FALSE
    /\ pending' = Append(RemoveAt(pending, i),
                         Request("uploadFile.getFiles", Null, <<>>, <<>>))
    /\ UNCHANGED <<chatVars, files, selectedFiles>>

\* The upload succeeded: await get().loadFiles() runs loadFiles up to its
\* await.  The request is the getFiles request of that nested call, whose
\* completion also resumes uploadFile.
uploadFile_then(i) ==
    /\ i \in InFlight("uploadFile")
    /\ fileIsLoading' = TRUE
    /\ pending' = Append(RemoveAt(pending, i),
                         Request("uploadFile.getFiles", Null, <<>>, <<>>))
    /\ UNCHANGED <<chatVars, files, selectedFiles, isUploading>>

\* The upload failed: the finally clause runs and the error leaves uploadFile.
\* Mutant of uploadFile_catch: the uploading flag stays set after a failure.
uploadFile_catch_staysUploading(i) ==
    /\ i \in InFlight("uploadFile")
    /\ pending' = RemoveAt(pending, i)
    /\ UNCHANGED <<chatVars, fileVars>>

uploadFile_catch(i) ==
    /\ i \in InFlight("uploadFile")
    /\ isUploading' = FALSE
    /\ pending' = RemoveAt(pending, i)
    /\ UNCHANGED <<chatVars, files, selectedFiles, fileIsLoading>>

\* The nested loadFiles got its list; uploadFile resumes in the same turn of
\* the event loop (promise continuations run before the next event) and its
\* finally clause runs.
uploadFile_loadFiles_then(i, list) ==
    /\ i \in InFlight("uploadFile.getFiles")
    /\ files' = list
    /\ fileIsLoading' = FALSE
    /\ isUploading' = FALSE
    /\ pending' = RemoveAt(pending, i)
    /\ UNCHANGED <<chatVars, selectedFiles>>

\* The nested loadFiles failed and swallowed its error; uploadFile resumes and
\* its finally clause runs.
uploadFile_loadFiles_catch(i) ==
    /\ i \in InFlight("uploadFile.getFiles")
    /\ fileIsLoading' = FALSE
    /\ isUploading' = FALSE
    /\ pending' = RemoveAt(pending, i)
    /\ UNCHANGED <<chatVars, files, selectedFiles>>

\* Mutant of Toggled: the id is appended whether selected or not.
Toggled_alwaysAppends(selection, fileId) == Append(selection, fileId)

\* Mutant of Toggled: a selected id is not removed.
Toggled_neverRemoves(selection, fileId) ==
    IF Includes(selection, fileId) THEN selection ELSE Append(selection, fileId)

\* The selection after toggleFileSelection(fileId).
Toggled(selection, fileId) ==
    IF Includes(selection, fileId)
    THEN SelectSeq(selection, LAMBDA id : id # fileId)
    ELSE Append(selection, fileId)

toggleFileSelection(fileId) ==
    /\ selectedFiles' = Toggled(selectedFiles, fileId)
    /\ UNCHANGED <<chatVars, files, fileIsLoading, isUploading, pending>>

\* Mutant of selectAllFiles: the ids are added to the current selection.
selectAllFiles_adds ==
    /\ selectedFiles' = selectedFiles \o [k \in 1..Len(files) |-> files[k].id]
    /\ UNCHANGED <<chatVars, files, fileIsLoading, isUploading, pending>>

selectAllFiles ==
    /\ selectedFiles' = [k \in 1..Len(files) |-> files[k].id]
    /\ UNCHANGED <<chatVars, files, fileIsLoading, isUploading, pending>>

clearSelection ==
    /\ selectedFiles' = <<>>
    /\ UNCHANGED <<chatVars, files, fileIsLoading, isUploading, pending>>

\* ---------------------------------------------------------- UI handlers
\* A handler is reachable when the element it is bound to is rendered and
\* enabled.
SessionShown(id) ==
    /\ ~sessionsLoading
    /\ \E k \in 1..Len(sessions) : sessions[k].session_id = id

FileShown(fileId) ==
    /\ ~fileIsLoading
    /\ \E k \in 1..Len(files) : files[k].id = fileId

\* Mutant of SubmitRefused: an empty selection is not refused.
SubmitRefused_allowsNoSelection(text) ==
    \/ Trim(text) = <<>>
    \/ isLoading

\* ChatInput.handleSubmit: whether the handler returns before sendMessage.
SubmitRefused(text) ==
    \/ Trim(text) = <<>>
    \/ isLoading
    \/ selectedFiles = <<>>

handleSubmit(text) ==
    IF SubmitRefused(text)
    THEN UNCHANGED <<chatVars, fileVars, pending>>
    ELSE sendMessage(Trim(text), selectedFiles)

\* FileUpload.onDrop: the dropzone is disabled while an upload is running;
\* a missing file, a file that is not a PDF and a file over 50 MB are refused.
DropRefused(file) ==
    \/ file = NoFile
    \/ file.type # "application/pdf"
    \/ file.size > MaxUploadSize

onDrop(file) ==
    /\ ~isUploading
    /\ IF DropRefused(file)
       THEN UNCHANGED <<chatVars, fileVars, pending>>
       ELSE uploadFile

\* ChatInput's textarea: onChange sets input; the textarea is disabled while
\* loading and while no document is selected.
setInput(text) ==
    /\ ~isLoading
    /\ selectedFiles # <<>>
    /\ input' = text
    /\ UNCHANGED <<chatVars, fileVars, pending>>

\* ChatInput.handleSubmit on the text in the textarea: the textarea is
\* emptied when the message is sent.
handleSubmitInput ==
    /\ handleSubmit(input)
    /\ input' = IF SubmitRefused(input) THEN input ELSE <<>>

\* ChatInput.handleSubmit after await sendMessage(...) resolved
handleSubmit_then(i, response) ==
    /\ sendMessage_then(i, response)
    /\ UNCHANGED input

\* ChatInput.handleSubmit after await sendMessage(...) threw: setInput(message)
handleSubmit_catch(i) ==
    /\ sendMessage_catch(i)
    /\ input' = pending[i].question

\* SessionList.handleSwitchSession
handleSwitchSession(id) ==
    /\ SessionShown(id)
    /\ IF id = sessionId
       THEN UNCHANGED <<chatVars, fileVars, pending>>
       ELSE switchSession(id)

\* SessionList.handleDeleteSession, the confirm dialog accepted, up to its
\* await: the delete button of a session is disabled while deletingSession
\* is that session.
handleDeleteSession(id) ==
    /\ SessionShown(id)
    /\ deletingSession # id
    /\ deletingSession' = id
    /\ deleteSession(id)

\* SessionList.handleDeleteSession after await deleteSession(...) resolved:
\* the finally clause clears deletingSession, whichever session it names.
handleDeleteSession_then(i) ==
    /\ deleteSession_then(i)
    /\ deletingSession' = Null

\* SessionList.handleDeleteSession after await deleteSession(...) threw
handleDeleteSession_catch(i) ==
    /\ deleteSession_catch(i)
    /\ deletingSession' = Null

\* SessionList.handleNewSession
handleNewSession == initializeSession

\* SessionInfo.handleNewChat
handleNewChat == initializeSession

\* SessionInfo.handleClearChat: the button is rendered when there are
\* messages and disabled while loading.
handleClearChat ==
    /\ messages # <<>>
    /\ ~isLoading
    /\ clearChat

\* Mutant of handleFileToggle: the conversation is not cleared.
handleFileToggle_noClear(fileId) ==
    /\ FileShown(fileId)
    /\ toggleFileSelection(fileId)

\* FileList.handleFileToggle: toggleFileSelection(fileId); clearChat()
handleFileToggle(fileId) ==
    /\ FileShown(fileId)
    /\ selectedFiles' = Toggled(selectedFiles, fileId)
    /\ messages' = <<>>
    /\ UNCHANGED <<sessionId, isLoading, sessions, sessionsLoading, files,
                   fileIsLoading, isUploading, pending>>

\* The application once mounted: ChatApp renders Sidebar (SessionInfo,
\* FileUpload, FileList) and ChatInterface (ChatInput), and its effect has run
\* initializeSession and loadFiles up to their awaits.
InitUI ==
    /\ sessionId = Null
    /\ messages = <<>>
    /\ isLoading = FALSE
    /\ sessions = <<>>
    /\ sessionsLoading = FALSE
    /\ files = <<>>
    /\ selectedFiles = <<>>
    /\ fileIsLoading = TRUE
    /\ isUploading = FALSE
    /\ chatAPI \in ChatAPIs
    /\ input = <<>>
    /\ deletingSession = Null
    /\ pending = << Request("createSession", Null, <<>>, <<>>),
                    Request("getFiles", Null, <<>>, <<>>) >>
    /\ pre = <<>>
    /\ preId = Null
    /\ choice = "unset"
    /\ toggles = <<>>
    /\ deleted = Null
    /\ stale = 0
    /\ last = Event("mount", "call", "none")

\* SessionList mounted on the initial chat store (no component of the
\* application renders it): its effect has run fetchSessions.
InitSessionList ==
    /\ sessionId = Null
    /\ messages = <<>>
    /\ isLoading = FALSE
    /\ sessions = <<>>
    /\ chatAPI \in ChatAPIs
    /\ sessionsLoading = ("getAllSessions" \in chatAPI)
    /\ pending = IF "getAllSessions" \in chatAPI
                 THEN << Request("getAllSessions", Null, <<>>, <<>>) >>
                 ELSE <<>>
    /\ files = <<>>
    /\ selectedFiles = <<>>
    /\ fileIsLoading = FALSE
    /\ isUploading = FALSE
    /\ input = <<>>
    /\ deletingSession = Null
    /\ pre = <<>>
    /\ preId = Null
    /\ choice = "unset"
    /\ toggles = <<>>
    /\ deleted = Null
    /\ stale = 0
    /\ last = Event("mount", "call", "none")

\* ------------------------------------------------- store/chatStore.js
\* The chat store of store/chatStore.js holds sessionId, messages and
\* isLoading and has the operations initializeSession, sendMessage and
\* clearChat.  Their synchronous parts and their catch branches are, line for
\* line, those of the store above; their try branches refresh no sessions
\* list.
chatStore_initializeSession_then(i, sid) ==
    /\ i \in InFlight("createSession")
    /\ sessionId' = sid
    /\ pending' = RemoveAt(pending, i)
    /\ UNCHANGED <<messages, isLoading, sessions, sessionsLoading, fileVars>>

chatStore_sendMessage_then(i, response) ==
    /\ i \in InFlight("sendMessage")
    /\ messages' = Append(messages,
                          Msg("assistant", response.answer, response.sources))
    /\ isLoading' = FALSE
    /\ sessionId' = response.session_id
    /\ pending' = RemoveAt(pending, i)
    /\ UNCHANGED <<sessions, sessionsLoading, fileVars>>

\* How the promise of a store operation settles when its continuation ran
\* the try branch ("then") or the catch branch ("catch"): sendMessage and
\* deleteSession re-throw, uploadFile has no catch clause, the other
\* operations log the error and return.
PromiseOutcome(op, branch) ==
    IF branch = "catch" /\ op \in {"sendMessage", "deleteSession", "uploadFile"}
    THEN "rejected" ELSE "resolved"

\* ------------------------------------------------------------ observers
\* What a specification records of a step; op and ev name the step.
RecordLast(op, ev) ==
    /\ last' = Event(op, ev, IF ev \in {"then", "catch"} THEN PromiseOutcome(op, ev)
                             ELSE IF ev = "throw" THEN PromiseOutcome(op, "catch")
                             ELSE "none")
    /\ pre' = IF ev \in {"call", "local", "throw"} THEN messages ELSE pre
    /\ preId' = IF ev \in {"call", "local", "throw"} THEN sessionId ELSE preId
    /\ UNCHANGED <<chatAPI, choice, toggles, deleted, stale>>

\* A step of the stores: the state of the components stays.
ObserveLast(op, ev) == RecordLast(op, ev) /\ UNCHANGED <<input, deletingSession>>

\* A step of ChatInput, which may write its input.
ObserveInput(op, ev) == RecordLast(op, ev) /\ UNCHANGED deletingSession

\* A step of SessionList, which may write its deletingSession.
ObserveSessionList(op, ev) == RecordLast(op, ev) /\ UNCHANGED input

Unobserved ==
    UNCHANGED <<chatAPI, input, deletingSession, pre, preId, choice, toggles,
                deleted, stale, last>>

\* A step of ChatInput in a specification that records no history: the
\* handler decides input.
UnobservedInput ==
    UNCHANGED <<chatAPI, deletingSession, pre, preId, choice, toggles, deleted,
                stale, last>>

\* choice is the target of the switchSession issued last, as long as no
\* initializeSession or deleteSession was issued after it.
ObserveChoice(c) ==
    /\ choice' = c
    /\ UNCHANGED <<chatAPI, input, deletingSession, pre, preId, toggles, deleted,
                   stale, last>>

\* toggles records the argument of every toggleFileSelection call.
ObserveToggle(fileId) ==
    /\ toggles' = Append(toggles, fileId)
    /\ UNCHANGED <<chatAPI, input, deletingSession, pre, preId, choice, deleted,
                   stale, last>>

\* deleted and stale: a successful deleteSession at position i records its
\* session and that every other request in flight was issued before it; a
\* request issued later joins pending behind those, and the completion of the
\* request at position i takes it out of them when it is one of them.
ObserveDeletion(i) ==
    /\ deleted' = pending[i].session_id
    /\ stale' = Len(pending) - 1
    /\ UNCHANGED <<chatAPI, input, deletingSession, pre, preId, choice, toggles, last>>

ObserveCompletion(i) ==
    /\ stale' = IF i <= stale THEN stale - 1 ELSE stale
    /\ UNCHANGED <<chatAPI, input, deletingSession, pre, preId, choice, toggles,
                   deleted, last>>

\* ------------------------------------------------------- specifications
\* Spec: the chat store with its operations invoked at any time, also while
\* requests are in flight.
Next ==
    \/ initializeSession /\ ObserveChoice("other")
    \/ fetchSessions /\ ObserveChoice(choice)
    \/ \E id \in SessionIds : switchSession(id) /\ ObserveChoice(id)
    \/ \E id \in SessionIds : deleteSession(id) /\ ObserveChoice("other")
    \/ sendMessage(<<"q">>, <<"d1">>) /\ ObserveChoice(choice)
    \/ clearChat /\ ObserveChoice(choice)
    \/ \E i \in 1..Len(pending), sid \in SessionIds :
           initializeSession_then(i, sid) /\ ObserveChoice(choice)
    \/ \E i \in 1..Len(pending) : initializeSession_catch(i) /\ ObserveChoice(choice)
    \/ \E i \in 1..Len(pending), list \in SessionLists :
           fetchSessions_then(i, list) /\ ObserveChoice(choice)
    \/ \E i \in 1..Len(pending) : fetchSessions_catch(i) /\ ObserveChoice(choice)
    \/ \E i \in 1..Len(pending), h \in BackendHistories :
           switchSession_then(i, h) /\ ObserveChoice(choice)
    \/ \E i \in 1..Len(pending) : switchSession_catch(i) /\ ObserveChoice(choice)
    \/ \E i \in 1..Len(pending) : deleteSession_then(i) /\ ObserveChoice(choice)
    \/ \E i \in 1..Len(pending) : deleteSession_catch(i) /\ ObserveChoice(choice)
    \/ \E i \in 1..Len(pending) : \E response \in ChatResponsesFor(pending[i]) :
           sendMessage_then(i, response) /\ ObserveChoice(choice)
    \/ \E i \in 1..Len(pending) : sendMessage_catch(i) /\ ObserveChoice(choice)
Spec == Init /\ [][Next]_vars

\* SpecSeq: the chat store with one operation at a time: an operation is
\* invoked only when nothing but sessions-list refreshes is in flight.
Quiet == \A k \in 1..Len(pending) : pending[k].op = "getAllSessions"
NextSeq ==
    \/ Quiet /\ initializeSession /\ ObserveLast("initializeSession", "call")
    \/ Quiet /\ fetchSessions
             /\ ObserveLast("fetchSessions", CallEvent("getAllSessions"))
    \/ \E id \in SessionIds :
           Quiet /\ switchSession(id)
           /\ ObserveLast("switchSession", CallEvent("getSessionHistory"))
    \/ \E id \in SessionIds :
           Quiet /\ deleteSession(id) /\ ObserveLast("deleteSession", "call")
    \/ \E message \in Inputs, documentIds \in {<<>>, <<"d1">>} :
           Quiet /\ sendMessage(message, documentIds)
           /\ ObserveLast("sendMessage", "call")
    \/ Quiet /\ clearChat /\ ObserveLast("clearChat", "local")
    \/ \E id \in SessionIds :
           Quiet /\ handleSwitchSession(id)
           /\ ObserveLast("handleSwitchSession",
                          IF id = sessionId THEN "noop"
                          ELSE CallEvent("getSessionHistory"))
    \/ \E i \in 1..Len(pending), sid \in SessionIds :
           initializeSession_then(i, sid) /\ ObserveLast("initializeSession", "then")
    \/ \E i \in 1..Len(pending) :
           initializeSession_catch(i) /\ ObserveLast("initializeSession", "catch")
    \/ \E i \in 1..Len(pending), list \in SessionLists :
           fetchSessions_then(i, list) /\ ObserveLast("fetchSessions", "then")
    \/ \E i \in 1..Len(pending) :
           fetchSessions_catch(i) /\ ObserveLast("fetchSessions", "catch")
    \/ \E i \in 1..Len(pending), h \in BackendHistories :
           switchSession_then(i, h) /\ ObserveLast("switchSession", "then")
    \/ \E i \in 1..Len(pending) :
           switchSession_catch(i) /\ ObserveLast("switchSession", "catch")
    \/ \E i \in 1..Len(pending) :
           deleteSession_then(i) /\ ObserveLast("deleteSession", "then")
    \/ \E i \in 1..Len(pending) :
           deleteSession_catch(i) /\ ObserveLast("deleteSession", "catch")
    \/ \E i \in 1..Len(pending) : \E response \in ChatResponsesFor(pending[i]) :
           sendMessage_then(i, response) /\ ObserveLast("sendMessage", "then")
    \/ \E i \in 1..Len(pending) :
           sendMessage_catch(i) /\ ObserveLast("sendMessage", "catch")
SpecSeq == Init /\ [][NextSeq]_vars

\* SpecSend: sendMessage and clearChat alone, invoked at any time with any
\* text.
NextSend ==
    \/ \E message \in Inputs, documentIds \in {<<>>, <<"d1">>} :
           sendMessage(message, documentIds) /\ ObserveLast("sendMessage", "call")
    \/ clearChat /\ ObserveLast("clearChat", "local")
    \/ \E i \in 1..Len(pending) : \E response \in ChatResponsesFor(pending[i]) :
           sendMessage_then(i, response) /\ ObserveLast("sendMessage", "then")
    \/ \E i \in 1..Len(pending) :
           sendMessage_catch(i) /\ ObserveLast("sendMessage", "catch")
    \/ \E i \in 1..Len(pending), list \in SessionLists :
           fetchSessions_then(i, list) /\ ObserveLast("fetchSessions", "then")
    \/ \E i \in 1..Len(pending) :
           fetchSessions_catch(i) /\ ObserveLast("fetchSessions", "catch")
SpecSend == Init /\ [][NextSend]_vars

\* SpecUI: the mounted application driven by the user through the handlers
\* of the components ChatApp renders: ChatInput, SessionInfo, FileList and
\* FileUpload.
NextUI ==
    \/ \E text \in Inputs : setInput(text) /\ UnobservedInput
    \/ handleSubmitInput /\ UnobservedInput
    \/ handleNewChat /\ Unobserved
    \/ handleClearChat /\ Unobserved
    \/ \E fileId \in DocIds : handleFileToggle(fileId) /\ Unobserved
    \/ \E file \in DroppedFiles : onDrop(file) /\ Unobserved
    \/ \E i \in 1..Len(pending), sid \in SessionIds :
           initializeSession_then(i, sid) /\ Unobserved
    \/ \E i \in 1..Len(pending) : initializeSession_catch(i) /\ Unobserved
    \/ \E i \in 1..Len(pending), list \in SessionLists :
           fetchSessions_then(i, list) /\ Unobserved
    \/ \E i \in 1..Len(pending) : fetchSessions_catch(i) /\ Unobserved
    \/ \E i \in 1..Len(pending) : \E response \in ChatResponsesFor(pending[i]) :
           handleSubmit_then(i, response) /\ UnobservedInput
    \/ \E i \in 1..Len(pending) : handleSubmit_catch(i) /\ UnobservedInput
    \/ \E i \in 1..Len(pending), list \in FileLists :
           loadFiles_then(i, list) /\ Unobserved
    \/ \E i \in 1..Len(pending) : loadFiles_catch(i) /\ Unobserved
    \/ \E i \in 1..Len(pending) : uploadFile_then(i) /\ Unobserved
    \/ \E i \in 1..Len(pending) : uploadFile_catch(i) /\ Unobserved
    \/ \E i \in 1..Len(pending), list \in FileLists :
           uploadFile_loadFiles_then(i, list) /\ Unobserved
    \/ \E i \in 1..Len(pending) : uploadFile_loadFiles_catch(i) /\ Unobserved
SpecUI == InitUI /\ [][NextUI]_vars

\* SpecSubmit: ChatInput (its textarea and handleSubmit) over the stores, the
\* other operations of the chat store invoked at any time, also while
\* requests are in flight.
NextSubmit ==
    \/ \E text \in Inputs : setInput(text) /\ UnobservedInput
    \/ handleSubmitInput /\ UnobservedInput
    \/ \E fileId \in DocIds : toggleFileSelection(fileId) /\ Unobserved
    \/ \E id \in SessionIds : switchSession(id) /\ Unobserved
    \/ \E id \in SessionIds : deleteSession(id) /\ Unobserved
    \/ initializeSession /\ Unobserved
    \/ clearChat /\ Unobserved
    \/ \E i \in 1..Len(pending), sid \in SessionIds :
           initializeSession_then(i, sid) /\ Unobserved
    \/ \E i \in 1..Len(pending) : initializeSession_catch(i) /\ Unobserved
    \/ \E i \in 1..Len(pending), list \in SessionLists :
           fetchSessions_then(i, list) /\ Unobserved
    \/ \E i \in 1..Len(pending) : fetchSessions_catch(i) /\ Unobserved
    \/ \E i \in 1..Len(pending), h \in BackendHistories :
           switchSession_then(i, h) /\ Unobserved
    \/ \E i \in 1..Len(pending) : switchSession_catch(i) /\ Unobserved
    \/ \E i \in 1..Len(pending) : deleteSession_then(i) /\ Unobserved
    \/ \E i \in 1..Len(pending) : deleteSession_catch(i) /\ Unobserved
    \/ \E i \in 1..Len(pending) : \E response \in ChatResponsesFor(pending[i]) :
           handleSubmit_then(i, response) /\ UnobservedInput
    \/ \E i \in 1..Len(pending) : handleSubmit_catch(i) /\ UnobservedInput
SpecSubmit == Init /\ [][NextSubmit]_vars

\* SpecSessionList: SessionList mounted on the chat store and driven by the
\* user through its handlers.
NextSessionList ==
    \/ \E id \in SessionIds :
           handleSwitchSession(id)
           /\ ObserveLast("handleSwitchSession",
                          IF id = sessionId THEN "noop"
                          ELSE CallEvent("getSessionHistory"))
    \/ \E id \in SessionIds :
           handleDeleteSession(id) /\ ObserveSessionList("deleteSession", "call")
    \/ handleNewSession /\ ObserveLast("initializeSession", "call")
    \/ \E i \in 1..Len(pending), sid \in SessionIds :
           initializeSession_then(i, sid) /\ ObserveLast("initializeSession", "then")
    \/ \E i \in 1..Len(pending) :
           initializeSession_catch(i) /\ ObserveLast("initializeSession", "catch")
    \/ \E i \in 1..Len(pending), list \in SessionLists :
           fetchSessions_then(i, list) /\ ObserveLast("fetchSessions", "then")
    \/ \E i \in 1..Len(pending) :
           fetchSessions_catch(i) /\ ObserveLast("fetchSessions", "catch")
    \/ \E i \in 1..Len(pending), h \in BackendHistories :
           switchSession_then(i, h) /\ ObserveLast("switchSession", "then")
    \/ \E i \in 1..Len(pending) :
           switchSession_catch(i) /\ ObserveLast("switchSession", "catch")
    \/ \E i \in 1..Len(pending) :
           handleDeleteSession_then(i) /\ ObserveSessionList("deleteSession", "then")
    \/ \E i \in 1..Len(pending) :
           handleDeleteSession_catch(i) /\ ObserveSessionList("deleteSession", "catch")
SpecSessionList == InitSessionList /\ [][NextSessionList]_vars

\* SpecChatStore: the chat store of store/chatStore.js with one operation at
\* a time.
InitChatStore == Init /\ chatAPI = ChatAPIMethods
NextChatStore ==
    \/ Quiet /\ initializeSession /\ ObserveLast("initializeSession", "call")
    \/ \E message \in Inputs, documentIds \in {<<>>, <<"d1">>} :
           Quiet /\ sendMessage(message, documentIds)
           /\ ObserveLast("sendMessage", "call")
    \/ Quiet /\ clearChat /\ ObserveLast("clearChat", "local")
    \/ \E i \in 1..Len(pending), sid \in SessionIds :
           chatStore_initializeSession_then(i, sid)
           /\ ObserveLast("initializeSession", "then")
    \/ \E i \in 1..Len(pending) :
           initializeSession_catch(i) /\ ObserveLast("initializeSession", "catch")
    \/ \E i \in 1..Len(pending) : \E response \in ChatResponsesFor(pending[i]) :
           chatStore_sendMessage_then(i, response) /\ ObserveLast("sendMessage", "then")
    \/ \E i \in 1..Len(pending) :
           sendMessage_catch(i) /\ ObserveLast("sendMessage", "catch")
SpecChatStore == InitChatStore /\ [][NextChatStore]_vars

\* SpecFiles: the file store alone, its operations invoked at any time.
NextFiles ==
    \/ loadFiles /\ ObserveLast("loadFiles", "call")
    \/ \E fileId \in DocIds :
           toggleFileSelection(fileId) /\ ObserveLast("toggleFileSelection", "local")
    \/ \E i \in 1..Len(pending), list \in FileLists :
           loadFiles_then(i, list) /\ ObserveLast("loadFiles", "then")
    \/ \E i \in 1..Len(pending) :
           loadFiles_catch(i) /\ ObserveLast("loadFiles", "catch")
    \/ uploadFile /\ ObserveLast("uploadFile", "call")
    \/ \E i \in 1..Len(pending) :
           uploadFile_then(i) /\ ObserveLast("uploadFile", "await")
    \/ \E i \in 1..Len(pending) :
           uploadFile_catch(i) /\ ObserveLast("uploadFile", "catch")
    \/ \E i \in 1..Len(pending), list \in FileLists :
           uploadFile_loadFiles_then(i, list)
           /\ ObserveLast("uploadFile.loadFiles", "then")
    \/ \E i \in 1..Len(pending) :
           uploadFile_loadFiles_catch(i)
           /\ ObserveLast("uploadFile.loadFiles", "catch")
    \/ selectAllFiles /\ ObserveLast("selectAllFiles", "local")
    \/ clearSelection /\ ObserveLast("clearSelection", "local")
SpecFiles == Init /\ [][NextFiles]_vars

\* SpecFetch: the fetching operations of both stores (switchSession,
\* fetchSessions, loadFiles) invoked at any time, their requests completing
\* in any order.
NextFetch ==
    \/ \E id \in SessionIds : switchSession(id) /\ Unobserved
    \/ fetchSessions /\ Unobserved
    \/ loadFiles /\ Unobserved
    \/ \E i \in 1..Len(pending), h \in BackendHistories :
           switchSession_then(i, h) /\ Unobserved
    \/ \E i \in 1..Len(pending) : switchSession_catch(i) /\ Unobserved
    \/ \E i \in 1..Len(pending), list \in SessionLists :
           fetchSessions_then(i, list) /\ Unobserved
    \/ \E i \in 1..Len(pending) : fetchSessions_catch(i) /\ Unobserved
    \/ \E i \in 1..Len(pending), list \in FileLists :
           loadFiles_then(i, list) /\ Unobserved
    \/ \E i \in 1..Len(pending) : loadFiles_catch(i) /\ Unobserved
SpecFetch == Init /\ [][NextFetch]_vars

\* SpecToggle: sequences of toggleFileSelection calls on the initial store.
NextToggle ==
    \E fileId \in DocIds :
        /\ Len(toggles) < MaxToggles
        /\ toggleFileSelection(fileId)
        /\ ObserveToggle(fileId)
SpecToggle == Init /\ [][NextToggle]_vars

\* SpecChatUI: the mounted application where the user only selects
\* documents, types and submits questions and clears the chat.
NextChatUI ==
    \/ \E text \in Inputs : setInput(text) /\ ObserveInput("setInput", "local")
    \/ handleSubmitInput
           /\ ObserveInput("handleSubmit", IF SubmitRefused(input) THEN "noop" ELSE "call")
    \/ \E fileId \in DocIds :
           handleFileToggle(fileId) /\ ObserveLast("handleFileToggle", "local")
    \/ handleClearChat /\ ObserveLast("handleClearChat", "local")
    \/ \E i \in 1..Len(pending), sid \in SessionIds :
           initializeSession_then(i, sid) /\ ObserveLast("initializeSession", "then")
    \/ \E i \in 1..Len(pending) :
           initializeSession_catch(i) /\ ObserveLast("initializeSession", "catch")
    \/ \E i \in 1..Len(pending), list \in SessionLists :
           fetchSessions_then(i, list) /\ ObserveLast("fetchSessions", "then")
    \/ \E i \in 1..Len(pending) :
           fetchSessions_catch(i) /\ ObserveLast("fetchSessions", "catch")
    \/ \E i \in 1..Len(pending) : \E response \in ChatResponsesFor(pending[i]) :
           handleSubmit_then(i, response) /\ ObserveInput("sendMessage", "then")
    \/ \E i \in 1..Len(pending) :
           handleSubmit_catch(i) /\ ObserveInput("sendMessage", "catch")
    \/ \E i \in 1..Len(pending), list \in FileLists :
           loadFiles_then(i, list) /\ ObserveLast("loadFiles", "then")
    \/ \E i \in 1..Len(pending) :
           loadFiles_catch(i) /\ ObserveLast("loadFiles", "catch")
SpecChatUI == InitUI /\ [][NextChatUI]_vars

\* SpecConversation: one conversation under sends, session switches and
\* clears invoked at any time, where the backend eventually answers or fails
\* every chat request.
SendSettles ==
    \E i \in 1..Len(pending) :
        \/ \E response \in ChatResponsesFor(pending[i]) :
               sendMessage_then(i, response) /\ Unobserved
        \/ sendMessage_catch(i) /\ Unobserved
NextConversation ==
    \/ sendMessage(<<"q">>, <<"d1">>) /\ Unobserved
    \/ clearChat /\ Unobserved
    \/ \E id \in SessionIds : switchSession(id) /\ Unobserved
    \/ \E i \in 1..Len(pending) : \E response \in ChatResponsesFor(pending[i]) :
           sendMessage_then(i, response) /\ Unobserved
    \/ \E i \in 1..Len(pending) : sendMessage_catch(i) /\ Unobserved
    \/ \E i \in 1..Len(pending), h \in BackendHistories :
           switchSession_then(i, h) /\ Unobserved
    \/ \E i \in 1..Len(pending) : switchSession_catch(i) /\ Unobserved
    \/ \E i \in 1..Len(pending), list \in SessionLists :
           fetchSessions_then(i, list) /\ Unobserved
    \/ \E i \in 1..Len(pending) : fetchSessions_catch(i) /\ Unobserved
SpecConversation ==
    Init /\ [][NextConversation]_vars /\ WF_vars(SendSettles)

\* SpecInput: the mounted application with ChatInput's textarea, where the
\* user only selects documents, types and submits.
NextInput ==
    \/ \E text \in Inputs : setInput(text) /\ ObserveInput("setInput", "local")
    \/ handleSubmitInput
           /\ ObserveInput("handleSubmit", IF SubmitRefused(input) THEN "noop" ELSE "call")
    \/ \E i \in 1..Len(pending) : \E response \in ChatResponsesFor(pending[i]) :
           handleSubmit_then(i, response) /\ ObserveInput("sendMessage", "then")
    \/ \E i \in 1..Len(pending) :
           handleSubmit_catch(i) /\ ObserveInput("sendMessage", "catch")
    \/ \E fileId \in DocIds :
           handleFileToggle(fileId) /\ ObserveLast("handleFileToggle", "local")
    \/ \E i \in 1..Len(pending), sid \in SessionIds :
           initializeSession_then(i, sid) /\ ObserveLast("initializeSession", "then")
    \/ \E i \in 1..Len(pending) :
           initializeSession_catch(i) /\ ObserveLast("initializeSession", "catch")
    \/ \E i \in 1..Len(pending), list \in SessionLists :
           fetchSessions_then(i, list) /\ ObserveLast("fetchSessions", "then")
    \/ \E i \in 1..Len(pending) :
           fetchSessions_catch(i) /\ ObserveLast("fetchSessions", "catch")
    \/ \E i \in 1..Len(pending), list \in FileLists :
           loadFiles_then(i, list) /\ ObserveLast("loadFiles", "then")
    \/ \E i \in 1..Len(pending) :
           loadFiles_catch(i) /\ ObserveLast("loadFiles", "catch")
SpecInput == InitUI /\ [][NextInput]_vars

\* SpecUpload: the mounted application where the user only drops files on
\* FileUpload and selects documents.
NextUpload ==
    \/ \E file \in DroppedFiles :
           onDrop(file)
           /\ ObserveLast("onDrop", IF DropRefused(file) THEN "noop" ELSE "call")
    \/ \E i \in 1..Len(pending) :
           uploadFile_then(i) /\ ObserveLast("uploadFile", "await")
    \/ \E i \in 1..Len(pending) :
           uploadFile_catch(i) /\ ObserveLast("uploadFile", "catch")
    \/ \E i \in 1..Len(pending), list \in FileLists :
           uploadFile_loadFiles_then(i, list)
           /\ ObserveLast("uploadFile.loadFiles", "then")
    \/ \E i \in 1..Len(pending) :
           uploadFile_loadFiles_catch(i)
           /\ ObserveLast("uploadFile.loadFiles", "catch")
    \/ \E fileId \in DocIds :
           handleFileToggle(fileId) /\ ObserveLast("handleFileToggle", "local")
    \/ \E i \in 1..Len(pending), list \in FileLists :
           loadFiles_then(i, list) /\ ObserveLast("loadFiles", "then")
    \/ \E i \in 1..Len(pending) :
           loadFiles_catch(i) /\ ObserveLast("loadFiles", "catch")
    \/ \E i \in 1..Len(pending), sid \in SessionIds :
           initializeSession_then(i, sid) /\ ObserveLast("initializeSession", "then")
    \/ \E i \in 1..Len(pending) :
           initializeSession_catch(i) /\ ObserveLast("initializeSession", "catch")
    \/ \E i \in 1..Len(pending), list \in SessionLists :
           fetchSessions_then(i, list) /\ ObserveLast("fetchSessions", "then")
    \/ \E i \in 1..Len(pending) :
           fetchSessions_catch(i) /\ ObserveLast("fetchSessions", "catch")
SpecUpload == InitUI /\ [][NextUpload]_vars

\* SpecDelete: the chat store with sessions deleted while other requests are
\* in flight.
NextDelete ==
    \/ fetchSessions /\ Unobserved
    \/ \E id \in SessionIds : switchSession(id) /\ Unobserved
    \/ \E id \in SessionIds : deleteSession(id) /\ Unobserved
    \/ sendMessage(<<"q">>, <<"d1">>) /\ Unobserved
    \/ \E i \in 1..Len(pending), list \in SessionLists :
           fetchSessions_then(i, list) /\ ObserveCompletion(i)
    \/ \E i \in 1..Len(pending) : fetchSessions_catch(i) /\ ObserveCompletion(i)
    \/ \E i \in 1..Len(pending), h \in BackendHistories :
           switchSession_then(i, h) /\ ObserveCompletion(i)
    \/ \E i \in 1..Len(pending) : switchSession_catch(i) /\ ObserveCompletion(i)
    \/ \E i \in 1..Len(pending) : deleteSession_then(i) /\ ObserveDeletion(i)
    \/ \E i \in 1..Len(pending) : deleteSession_catch(i) /\ ObserveCompletion(i)
    \/ \E i \in 1..Len(pending) : \E response \in ChatResponsesFor(pending[i]) :
           sendMessage_then(i, response) /\ ObserveCompletion(i)
    \/ \E i \in 1..Len(pending) : sendMessage_catch(i) /\ ObserveCompletion(i)
SpecDelete == Init /\ [][NextDelete]_vars

\* ------------------------------------------------------------ claims
UserMessage(text) == Msg("user", text, NoSources)
AssistantMessage(response) == Msg("assistant", response.answer, response.sources)

\* C1: a sendMessage whose backend call succeeds, with no other operation in
\* between, leaves the history it was called on followed by the user message
\* and the assistant message built from the response, and loading false.
C1_SendSuccess ==
    [][\A i \in 1..Len(pending) : \A response \in ChatResponses :
          sendMessage_then(i, response) =>
              /\ messages' = pre \o << UserMessage(pending[i].question),
                                       AssistantMessage(response) >>
              /\ isLoading' = FALSE]_vars

C1_Witness ==
    /\ last = Event("sendMessage", "then", "resolved")
    /\ sessionId # Null
    /\ pre # <<>>
    /\ Len(messages) = Len(pre) + 2

\* C2: a sendMessage whose backend call fails, with no other operation in
\* between, leaves exactly the history it was called on and loading false,
\* and its promise rejects.
C2_SendFailure ==
    [][\A i \in 1..Len(pending) :
          sendMessage_catch(i) =>
              /\ messages' = pre
              /\ isLoading' = FALSE
              /\ last'.outcome = "rejected"]_vars

C2_Witness ==
    /\ last = Event("sendMessage", "catch", "rejected")
    /\ pre # <<>>
    /\ messages = pre
    /\ ~isLoading

\* C3: whatever completed while the send was in flight, the message the
\* failure rollback removes is the user message this call appended.
C3_RollbackRemovesOwnMessage ==
    [][\A i \in 1..Len(pending) :
          (sendMessage_catch(i) /\ messages' # messages) =>
              messages[Len(messages)] = UserMessage(pending[i].question)]_vars

\* C4: the store's sendMessage rejects an empty text and a call made while
\* the loading flag is set: no message appended, no request issued.
C4_StoreRejectsSend ==
    [][\A message \in Inputs, documentIds \in {<<>>, <<"d1">>} :
          (sendMessage(message, documentIds) /\ (message = <<>> \/ isLoading)) =>
              UNCHANGED <<chatVars, pending>>]_vars

\* C5: through the UI handlers at most one sendMessage request is
\* outstanding at a time.
C5_OneSendOutstanding == Cardinality(InFlight("sendMessage")) <= 1

\* C6: if the active session id is none, the message sequence is empty.
C6_NoSessionNoMessages == sessionId = Null => messages = <<>>

\* C6 as amended: if the active session id is none, the message sequence
\* holds only user messages appended by sendMessage, at most one per
\* sendMessage request in flight (so it is empty when none is in flight).
C6_NoSessionOnlyPendingMessages ==
    sessionId = Null =>
        /\ \A k \in 1..Len(messages) :
               messages[k].role = "user" /\ messages[k].sources = NoSources
        /\ Len(messages) <= Cardinality(InFlight("sendMessage"))

C6_Witness ==
    /\ sessionId = Null
    /\ messages # <<>>
    /\ InFlight("sendMessage") # {}

\* A switchSession request at position i is stale: the switchSession issued
\* last names another session, has completed, and its session is active.
StaleSwitch(i) ==
    /\ choice \in SessionIds
    /\ choice # pending[i].session_id
    /\ sessionId = choice
    /\ \A k \in 1..Len(pending) : k > i => pending[k].op # "getSessionHistory"

\* C7: a stale switchSession history response is discarded: it overwrites
\* neither the active session id nor the message sequence.
C7_StaleSwitchDiscarded ==
    [][\A i \in 1..Len(pending) : \A h \in BackendHistories :
          (switchSession_then(i, h) /\ StaleSwitch(i)) =>
              UNCHANGED <<sessionId, messages>>]_vars

\* C8: a sendMessage response, success or failure, that resolves after the
\* active session id has changed since the call is discarded: it changes
\* neither the message sequence nor the active session id.
C8_StaleSendDiscarded ==
    [][\A i \in 1..Len(pending) :
          ( /\ pending[i].session_id # sessionId
            /\ \/ sendMessage_catch(i)
               \/ \E response \in ChatResponses : sendMessage_then(i, response) )
          => UNCHANGED <<sessionId, messages>>]_vars

\* C9: once every request has completed, the active session is the one the
\* user chose last (here: the target of the last switchSession issued, when
\* no initializeSession or deleteSession was issued after it).
C9_ActiveIsLastChoice ==
    (pending = <<>> /\ choice \in SessionIds) => sessionId = choice

\* C10: the store's switchSession called with the active session id issues
\* no request and changes no state.
C10_StoreSwitchToActiveIsNoop ==
    [][\A id \in SessionIds :
          (switchSession(id) /\ id = sessionId) =>
              UNCHANGED <<chatVars, pending>>]_vars

\* C11: a successful switchSession replaces the active session id and the
\* message sequence in one step, and the messages are then exactly the
\* backend history, role, content and sources unchanged.
C11_SwitchInstallsHistoryVerbatim ==
    [][\A i \in 1..Len(pending) : \A h \in BackendHistories :
          switchSession_then(i, h) =>
              /\ sessionId' = pending[i].session_id
              /\ messages' = h]_vars

\* C11 as amended: a successful switchSession replaces the active session id
\* and the message sequence in one step; the messages are then the backend
\* history in order, role and content unchanged, sources unchanged when it is
\* a list and undefined when the backend sent none (null or absent).
C11_SwitchInstallsHistory ==
    [][\A i \in 1..Len(pending) : \A h \in BackendHistories :
          switchSession_then(i, h) =>
              /\ sessionId' = pending[i].session_id
              /\ Len(messages') = Len(h)
              /\ \A k \in 1..Len(h) :
                     /\ messages'[k].role = h[k].role
                     /\ messages'[k].content = h[k].content
                     /\ messages'[k].sources =
                            IF h[k].sources.kind = "list"
                            THEN h[k].sources ELSE UndefinedSources]_vars

C11_Witness ==
    /\ last = Event("switchSession", "then", "resolved")
    /\ sessionId \in SessionIds
    /\ preId \in SessionIds
    /\ preId # sessionId
    /\ pre # <<>>
    /\ messages # <<>>
    /\ messages # pre

\* C12: when the history fetch of switchSession(id) fails, the active session
\* id is id, the message sequence is empty and the loading flag is cleared;
\* so too when the fetch fails before any request is sent (chatAPI has no
\* getSessionHistory).
C12_SwitchFailure ==
    [][/\ \A i \in 1..Len(pending) :
              switchSession_catch(i) =>
                  /\ sessionId' = pending[i].session_id
                  /\ messages' = <<>>
                  /\ isLoading' = FALSE
       /\ \A id \in SessionIds :
              (switchSession(id) /\ "getSessionHistory" \notin chatAPI) =>
                  /\ sessionId' = id
                  /\ messages' = <<>>
                  /\ isLoading' = FALSE]_vars

C12_Witness ==
    /\ last = Event("switchSession", "catch", "resolved")
    /\ sessionId \in SessionIds
    /\ preId \in SessionIds
    /\ preId # sessionId
    /\ pre # <<>>
    /\ messages = <<>>
    /\ ~isLoading

\* C13: a successful deleteSession of the active session removes it from the
\* cached list, sets the active session id to none and the messages to
\* empty, and issues no create-session request.
C13_DeleteActive ==
    [][\A i \in 1..Len(pending) :
          (deleteSession_then(i) /\ pending[i].session_id = sessionId) =>
              /\ \A k \in 1..Len(sessions') :
                     sessions'[k].session_id # pending[i].session_id
              /\ sessionId' = Null
              /\ messages' = <<>>
              /\ \A k \in 1..Len(pending') : pending'[k].op # "createSession"]_vars

C13_Witness ==
    /\ last = Event("deleteSession", "then", "resolved")
    /\ preId \in SessionIds
    /\ pre # <<>>
    /\ sessionId = Null
    /\ messages = <<>>
    /\ Len(sessions) = 1
    /\ sessions[1].session_id # preId

\* C14: a successful deleteSession of a session that is not the active one
\* removes only its entry from the cached list, the other entries kept in
\* order, and leaves the active session id, the messages and the loading
\* flag unchanged.
C14_DeleteOther ==
    [][\A i \in 1..Len(pending) :
          (deleteSession_then(i) /\ pending[i].session_id # sessionId) =>
              /\ sessions' = SelectSeq(sessions,
                                 LAMBDA s : s.session_id # pending[i].session_id)
              /\ UNCHANGED <<sessionId, messages, isLoading>>]_vars

C14_Witness ==
    /\ last = Event("deleteSession", "then", "resolved")
    /\ sessionId \in SessionIds
    /\ preId = sessionId
    /\ messages # <<>>
    /\ messages = pre
    /\ Len(sessions) = 1
    /\ sessions[1].session_id = sessionId

\* C15: when the delete request fails, the promise of deleteSession rejects
\* and the sessions list, the active session id and the messages are as
\* before.
\* (A successful deletion of a session that is neither listed nor active
\* changes the store in the same way; last'.ev tells the two steps apart.)
C15_DeleteFailure ==
    [][\A i \in 1..Len(pending) :
          (deleteSession_catch(i) /\ last'.ev = "catch") =>
              /\ UNCHANGED <<sessions, sessionId, messages>>
              /\ last'.outcome = "rejected"]_vars

C15_Witness ==
    /\ last = Event("deleteSession", "catch", "rejected")
    /\ sessionId \in SessionIds
    /\ messages # <<>>
    /\ Len(sessions) = 2
    /\ deletingSession = Null

\* C16: initializeSession called with no active session, the backend
\* succeeding, makes the issued id the active one with an empty message
\* sequence and starts a refresh of the sessions list (a request for the
\* list is in flight after the step), in either chat store.
C16_InitializeFromNone ==
    [][\A i \in 1..Len(pending) : \A sid \in SessionIds :
          ( /\ \/ initializeSession_then(i, sid)
               \/ chatStore_initializeSession_then(i, sid)
            /\ preId = Null ) =>
              /\ sessionId' = sid
              /\ messages' = <<>>
              /\ sessionsLoading'
              /\ Len(pending') >= 1
              /\ pending'[Len(pending')].op = "getAllSessions"
              /\ Cardinality({k \in 1..Len(pending') : pending'[k].op = "getAllSessions"})
                     = Cardinality(InFlight("getAllSessions")) + 1]_vars

\* C17: initializeSession called while a session is active changes neither
\* the active session id nor the message sequence.
C17_InitializeIdempotent ==
    [][\A i \in 1..Len(pending) : \A sid \in SessionIds :
          (initializeSession_then(i, sid) /\ preId # Null) =>
              UNCHANGED <<sessionId, messages>>]_vars

\* C18: when the create-session request fails, the session id, the messages,
\* the sessions list and the flags are as before and no sessions-list
\* refresh is issued.
C18_InitializeFailure ==
    [][\A i \in 1..Len(pending) :
          initializeSession_catch(i) =>
              /\ UNCHANGED chatVars
              /\ pending' = RemoveAt(pending, i)]_vars

C18_Witness ==
    /\ last = Event("initializeSession", "catch", "resolved")
    /\ sessionId \in SessionIds
    /\ messages # <<>>
    /\ sessions # <<>>
    /\ pending = <<>>

\* C19: a failed fetchSessions clears sessionsLoading and leaves the cached
\* list as it was; a successful one replaces the cached list by the response
\* and clears the flag.
C19_FetchSessionsOutcome ==
    [][\A i \in 1..Len(pending) :
          /\ fetchSessions_catch(i) =>
                 (sessionsLoading' = FALSE /\ sessions' = sessions)
          /\ \A list \in SessionLists :
                 fetchSessions_then(i, list) =>
                     (sessionsLoading' = FALSE /\ sessions' = list)]_vars

C19_Witness ==
    /\ last = Event("fetchSessions", "catch", "resolved")
    /\ sessions # <<>>
    /\ ~sessionsLoading

\* C20: loadFiles sets the file store's loading flag; on success the cached
\* document list is the response and the flag is cleared; on failure the
\* flag is cleared and the document list and the selection are as before.
C20_LoadFilesOutcome ==
    [][/\ loadFiles => fileIsLoading'
       /\ \A i \in 1..Len(pending) :
              /\ loadFiles_catch(i) =>
                     (fileIsLoading' = FALSE /\ UNCHANGED <<files, selectedFiles>>)
              /\ \A list \in FileLists :
                     loadFiles_then(i, list) =>
                         (fileIsLoading' = FALSE /\ files' = list)]_vars

C20_Witness ==
    /\ last = Event("loadFiles", "catch", "resolved")
    /\ files # <<>>
    /\ selectedFiles # <<>>
    /\ ~fileIsLoading

\* C21: with several switchSession, fetchSessions and loadFiles requests in
\* flight and completing in any order, every step leaves each of messages,
\* sessions and files either as it was, or holding the content of one single
\* response (for messages: the history of one response as switchSession
\* stores it, or empty after a failed history fetch); never a merge of two.
C21_LastResponseWins ==
    [][/\ \/ messages' = messages
          \/ messages' = <<>>
          \/ \E h \in BackendHistories :
                 /\ Len(messages') = Len(h)
                 /\ \A k \in 1..Len(h) :
                        /\ messages'[k].role = h[k].role
                        /\ messages'[k].content = h[k].content
       /\ sessions' = sessions \/ sessions' \in SessionLists
       /\ files' = files \/ files' \in FileLists]_vars

\* Two fetches of the sessions list overlapped and the first response has
\* been applied; a history has been loaded too.
C21_Witness ==
    /\ sessions # <<>>
    /\ ~sessionsLoading
    /\ Cardinality(InFlight("getAllSessions")) >= 1
    /\ messages # <<>>

\* C22: clearChat empties the message sequence, issues no request, and
\* changes neither the active session id, the loading flag nor the sessions
\* list; its result does not depend on the state it is called in, so calling
\* it twice is calling it once.
C22_ClearChat ==
    [][clearChat =>
          /\ messages' = <<>>
          /\ UNCHANGED <<sessionId, isLoading, sessions, sessionsLoading, pending>>]_vars

C22_Witness ==
    /\ last = Event("clearChat", "local", "none")
    /\ pre # <<>>
    /\ messages = <<>>
    /\ sessionId \in SessionIds
    /\ sessionId = preId
    /\ isLoading
    /\ InFlight("sendMessage") # {}

\* C23: after any sequence of toggleFileSelection calls from the empty
\* selection, the selection read as a set holds exactly the ids toggled an
\* odd number of times (so toggling an id twice gives back the same set).
C23_ToggleParity ==
    {selectedFiles[k] : k \in 1..Len(selectedFiles)} =
        {id \in DocIds :
            Cardinality({k \in 1..Len(toggles) : toggles[k] = id}) % 2 = 1}

C23_Witness ==
    /\ toggles = <<"d1", "d2", "d1", "d1", "d2">>
    /\ selectedFiles = <<"d1">>

\* C24: every identifier in the selection is the id of a known document.
C24_SelectionWithinFiles ==
    \A k \in 1..Len(selectedFiles) :
        \E j \in 1..Len(files) : files[j].id = selectedFiles[k]

\* C27: selectAllFiles makes the selection the ids of the known documents,
\* in order; clearSelection makes it empty; neither changes the document
\* list, the loading flag or the uploading flag.
C27_SelectAllAndClear ==
    [][/\ selectAllFiles =>
              /\ Len(selectedFiles') = Len(files)
              /\ \A k \in 1..Len(files) : selectedFiles'[k] = files[k].id
              /\ UNCHANGED <<files, fileIsLoading, isUploading>>
       /\ clearSelection =>
              /\ selectedFiles' = <<>>
              /\ UNCHANGED <<files, fileIsLoading, isUploading>>]_vars

\* selectAllFiles has just replaced a selection by the two known documents,
\* while a reload after an upload is in flight.
C27_Witness ==
    /\ last = Event("selectAllFiles", "local", "none")
    /\ Len(files) = 2
    /\ Len(selectedFiles) = 2
    /\ fileIsLoading
    /\ isUploading

\* C25: every change of the selection made through the UI leaves the message
\* sequence empty and the active session id as it was; FileList's
\* handleFileToggle flips the membership of the document it is given.
C25_SelectionChangeClearsChat ==
    [][/\ selectedFiles' # selectedFiles =>
              (messages' = <<>> /\ sessionId' = sessionId)
       /\ \A fileId \in DocIds :
              handleFileToggle(fileId) =>
                  /\ messages' = <<>>
                  /\ sessionId' = sessionId
                  /\ Includes(selectedFiles', fileId) = ~Includes(selectedFiles, fileId)
                  /\ \A id \in DocIds \ {fileId} :
                         Includes(selectedFiles', id) = Includes(selectedFiles, id)]_vars

\* Selection {d1} with history [u1, a1]: d2 toggled, the selection is
\* {d1, d2}, the history empty and the session the same.
C25_Witness ==
    /\ last = Event("handleFileToggle", "local", "none")
    /\ Len(pre) = 2
    /\ messages = <<>>
    /\ sessionId \in SessionIds
    /\ sessionId = preId
    /\ selectedFiles = <<"d1", "d2">>

\* C26: uploadFile sets the uploading flag; a successful upload starts
\* loadFiles and leaves the document list as it is until the reload answers;
\* the flag is cleared when uploadFile ends, after the reload or after a
\* failed upload; a failed upload rejects the promise of uploadFile.
C26_UploadFile ==
    [][/\ uploadFile => isUploading'
       /\ \A i \in 1..Len(pending) :
              /\ uploadFile_then(i) =>
                     /\ files' = files
                     /\ fileIsLoading'
                     /\ pending'[Len(pending')].op = "uploadFile.getFiles"
              /\ (uploadFile_catch(i) /\ last'.ev = "catch") =>
                     /\ isUploading' = FALSE
                     /\ files' = files
                     /\ last'.outcome = "rejected"
              /\ uploadFile_loadFiles_catch(i) => isUploading' = FALSE
              /\ \A list \in FileLists :
                     uploadFile_loadFiles_then(i, list) =>
                         (isUploading' = FALSE /\ files' = list)]_vars

C26_Witness ==
    /\ last = Event("uploadFile", "catch", "rejected")
    /\ ~isUploading
    /\ files # <<>>
    /\ pending = <<>>

\* C28: with no active session, sendMessage(text, docs) appends the user
\* message at once and sends a request whose session id is none; when the
\* backend answers, the history is [user(text), assistant(answer, sources)]
\* and the active session id is the one of the response.
C28_FirstSend ==
    [][/\ \A message \in Inputs, documentIds \in {<<>>, <<"d1">>} :
              (sendMessage(message, documentIds) /\ sessionId = Null) =>
                  /\ messages' = << UserMessage(message) >>
                  /\ pending'[Len(pending')].op = "sendMessage"
                  /\ pending'[Len(pending')].session_id = Null
                  /\ pending'[Len(pending')].question = message
                  /\ pending'[Len(pending')].document_ids = documentIds
       /\ \A i \in 1..Len(pending) : \A response \in ChatResponses :
              (sendMessage_then(i, response) /\ pending[i].session_id = Null) =>
                  /\ messages' = << UserMessage(pending[i].question),
                                    AssistantMessage(response) >>
                  /\ sessionId' = response.session_id]_vars

C28_Witness ==
    /\ last = Event("sendMessage", "then", "resolved")
    /\ preId = Null
    /\ pre = <<>>
    /\ Len(messages) = 2
    /\ messages[1].role = "user"
    /\ messages[2].role = "assistant"
    /\ sessionId \in SessionIds

\* C29: sendMessage entry sets the loading flag (Idle to Sending), and when
\* the backend eventually answers or fails, every state with a chat request
\* outstanding and the loading flag set is followed by a state with the
\* loading flag cleared (Sending to Idle).
C29_SendingLeadsToIdle ==
    /\ [][sendMessage(<<"q">>, <<"d1">>) => isLoading']_vars
    /\ (isLoading /\ InFlight("sendMessage") # {}) ~> ~isLoading

C29_Witness ==
    /\ isLoading
    /\ Cardinality(InFlight("sendMessage")) = 1
    /\ sessionId \in SessionIds
    /\ Len(messages) = 3

\* C30: a failed fetchSessions and a failed history fetch of switchSession
\* keep the state as it was and reject the promise of the operation, whether
\* the request fails or the call fails before any request is sent (chatAPI
\* lacks the method).
C30_FetchFailureSurfaced ==
    [][/\ \A i \in 1..Len(pending) :
              ((fetchSessions_catch(i) \/ switchSession_catch(i)) /\ last'.ev = "catch") =>
                  /\ UNCHANGED <<sessionId, messages, sessions>>
                  /\ last'.outcome = "rejected"
       /\ (last'.ev = "throw" /\ last'.op \in {"fetchSessions", "switchSession"}) =>
              /\ UNCHANGED <<sessionId, messages, sessions>>
              /\ last'.outcome = "rejected"]_vars

\* C31: a successful sendMessage makes the session id of the response the
\* active one, clears the loading flag and starts a fetchSessions (its
\* request is in flight after the step); a failed sendMessage starts no
\* request and leaves the active session id as it was.
C31_SendRefreshesSessions ==
    [][\A i \in 1..Len(pending) :
          /\ \A response \in ChatResponses :
                 sendMessage_then(i, response) =>
                     /\ sessionId' = response.session_id
                     /\ isLoading' = FALSE
                     /\ sessionsLoading'
                     /\ pending' = Append(RemoveAt(pending, i),
                                          Request("getAllSessions", Null, <<>>, <<>>))
          /\ sendMessage_catch(i) =>
                 /\ pending' = RemoveAt(pending, i)
                 /\ sessionId' = sessionId]_vars

\* C33: the loading flag is set whenever a chat request is outstanding.
C33_LoadingWhileSending == InFlight("sendMessage") # {} => isLoading

\* C34: sessionsLoading is set whenever a fetchSessions request is
\* outstanding, and the file store's isLoading whenever a loadFiles request
\* is outstanding.
C34_LoadingWhileFetching ==
    /\ InFlight("getAllSessions") # {} => sessionsLoading
    /\ InFlight("getFiles") # {} => fileIsLoading

\* C36: the assistant message a successful sendMessage appends comes right
\* after the user message it answers: when the continuation runs, the last
\* message is the user message of this call.
C36_AnswerFollowsQuestion ==
    [][\A i \in 1..Len(pending) : \A response \in ChatResponses :
          sendMessage_then(i, response) =>
              /\ messages # <<>>
              /\ messages[Len(messages)] = UserMessage(pending[i].question)]_vars

\* C38: the selection holds no identifier twice.
C38_SelectionHasNoDuplicates ==
    \A j, k \in 1..Len(selectedFiles) :
        selectedFiles[j] = selectedFiles[k] => j = k

\* Both documents selected, d2 first: d1 was deselected and selected again.
C38_Witness ==
    /\ last = Event("toggleFileSelection", "local", "none")
    /\ selectedFiles = <<"d2", "d1">>
    /\ Len(files) = 2

\* C32: every chat request ChatInput issues carries a text that is not
\* blank and a selection that is not empty, and is issued while the loading
\* flag is clear; when sendMessage fails, the textarea holds the text that
\* was sent.
C32_SubmitGuards ==
    [][/\ Cardinality({k \in 1..Len(pending') : pending'[k].op = "sendMessage"})
              > Cardinality(InFlight("sendMessage")) =>
              /\ ~isLoading
              /\ selectedFiles # <<>>
              /\ Trim(input) # <<>>
              /\ pending'[Len(pending')].question = Trim(input)
              /\ pending'[Len(pending')].document_ids = selectedFiles
       /\ \A i \in 1..Len(pending) :
              handleSubmit_catch(i) => input' = pending[i].question]_vars

C32_Witness ==
    /\ last = Event("sendMessage", "catch", "rejected")
    /\ input = <<"q">>
    /\ ~isLoading
    /\ selectedFiles # <<>>
    /\ InFlight("sendMessage") = {}

\* C37: the promise of uploadFile rejects only when the upload request
\* fails; when the upload succeeded and the reload fails, uploadFile resolves
\* with the document list as it was; isUploading is set from the call until
\* the reload has settled.
C37_UploadReloadFailure ==
    /\ [](InFlight("uploadFile") \cup InFlight("uploadFile.getFiles") # {}
             => isUploading)
    /\ [][/\ (last'.op \in {"uploadFile", "uploadFile.loadFiles"}
                 /\ last'.outcome = "rejected") =>
                 \E i \in 1..Len(pending) : uploadFile_catch(i)
          /\ \A i \in 1..Len(pending) :
                 /\ uploadFile_then(i) => (isUploading' /\ last'.outcome = "none")
                 /\ uploadFile_loadFiles_catch(i) =>
                        /\ files' = files
                        /\ isUploading' = FALSE
                        /\ last'.outcome = "resolved"]_vars

C37_Witness ==
    /\ last = Event("uploadFile.loadFiles", "catch", "resolved")
    /\ files # <<>>
    /\ selectedFiles # <<>>
    /\ ~isUploading
    /\ ~fileIsLoading

\* The session deleted last is neither the active session nor in the cached
\* sessions list.
DeletedIsGone ==
    /\ sessionId # deleted
    /\ \A k \in 1..Len(sessions) : sessions[k].session_id # deleted

\* C35: once deleteSession(id) has succeeded, the completion of a request
\* that was in flight at that time does not bring id back, neither into the
\* cached sessions list nor as the active session id.
C35_DeletedStaysGone ==
    [][(deleted # Null /\ deleted' = deleted /\ stale' < stale /\ DeletedIsGone)
          => DeletedIsGone']_vars

====
